---- MODULE Spec2Model ----
(***************************************************************************)
(* PiCam: a button-triggered photo kiosk (picam.py) and its earlier         *)
(* single-file variant (qr204.py).  The model follows the trigger handler   *)
(* (on_button / picture) statement by statement on the two threads that     *)
(* can run it -- the main thread (startup invocation) and the GPIO callback *)
(* thread -- together with the unlock timer threads, KeyboardInterrupt on   *)
(* the main thread and GPIO.cleanup().                                      *)
(***************************************************************************)
EXTENDS Integers, FiniteSets, Sequences, TLC

VARIABLES
    prog,           \* which entry point runs: "picam" or "qr204"
    IMAGE_WIDTH,    \* config['IMAGE_WIDTH']
    camera,         \* <<width, height>> of the frames the capture device delivers
    button_locked,  \* the lock flag
    led,            \* level of the LED pin: "HIGH", "LOW", or "INPUT" after cleanup
    cleaned,        \* GPIO.cleanup() has run
    interrupted,    \* KeyboardInterrupt has been delivered to the main thread
    pc,             \* position of each thread
    cyc,            \* locals and bookkeeping of each thread's current handler invocation
    timers,         \* threading.Timer objects started and not yet fired
    unlocking,      \* timer callbacks past "button_locked = False", before GPIO.output
    presses         \* button-press callbacks delivered so far

vars == <<prog, IMAGE_WIDTH, camera, button_locked, led, cleaned, interrupted,
          pc, cyc, timers, unlocking, presses>>

(* ------------------------------ bounds --------------------------------- *)

MaxPresses == 3
MaxBlinks == 2
MaxDim == 4
MaxWidth == 3

(* ------------------------- program constants --------------------------- *)

\* int(os.getenv('IMAGE_WIDTH', 384))
DefaultImageWidth == 384

\* convert_image(input_path, width=384, ...)
Qr204Width == 384

Threads == {"main", "gpio"}

NoImage == <<0, 0>>

\* A 1920x1080 capture device.
FullHd == <<1920, 1080>>

FrameSizes == ((1..MaxDim) \X (1..MaxDim)) \cup {FullHd}

Widths == (1..MaxWidth) \cup {DefaultImageWidth}

(* --------------------------- image pipeline ---------------------------- *)

\* Mutant of rotate: the canvas is not expanded, the size stays as it was.
rotate_keep(size) == size

\* img.rotate(-90, expand=True): a quarter turn with the canvas expanded swaps
\* width and height.
rotate(size) == <<size[2], size[1]>>

\* int(width * img.height / img.width): int() truncates towards zero.
resize_height(width, size) == (width * size[2]) \div size[1]

\* img.resize((width, height)) rejects a size with a side below 1.
resize(width, size) ==
    LET height == resize_height(width, size)
    IN  IF height < 1 THEN NoImage ELSE <<width, height>>

\* The size of the image convert returns for a decoded image of `size`,
\* NoImage when resize raises.  Greyscale, contrast and palette conversion keep
\* the size.
convert(size, width) == resize(width, rotate(size))

\* The width convert is called with.
Width == IF prog = "picam" THEN IMAGE_WIDTH ELSE Qr204Width

(* ------------------------------ helpers -------------------------------- *)

FreshCycle ==
    [ out      |-> "none",    \* "none", "running", "ignored", "returned", "raised"
      blinks   |-> 0,         \* blink iterations left in the LED sequence
      session  |-> FALSE,     \* a capture session is open
      opens    |-> 0,         \* capture sessions opened
      reads    |-> 0,         \* frames read
      got      |-> NoImage,   \* the frame read (ret = False: NoImage)
      noFrame  |-> FALSE,     \* the read returned ret = False
      frame    |-> NoImage,   \* the frame written to the capture file
      img      |-> NoImage,   \* the processed image
      reported |-> FALSE,     \* a failure message was printed
      printed  |-> FALSE,     \* the printer was called
      armed    |-> 0,         \* unlock timers started by this invocation
      exc      |-> "none" ]   \* pending exception: "none" or "kbi"

\* Statements of on_button inside its try block.
InTry(p) ==
    p \in {"capOpen", "capRead", "capRelease", "capStore", "convert", "ledLow", "print"}

\* Statements of the handler after the lock flag has been set.
BodyPcs ==
    {"blinkHigh", "blinkLow", "seqEnd", "capOpen", "capRead", "capRelease",
     "capStore", "convert", "ledLow", "print", "except", "finally", "arm"}

HandlerPcs == {"check", "lock"} \cup BodyPcs

\* Where a thread continues when the handler returns.
ReturnPc(t) == IF t = "main" THEN "wait" ELSE "idle"

\* Where a thread continues when an exception leaves the handler: on the main
\* thread it leaves the program (the startup invocation is outside the try),
\* on the GPIO thread the callback ends and the thread waits for the next edge.
PropagatePc(t) == IF t = "main" THEN "exit" ELSE "idle"

\* The interpreter exits once the main thread and every timer thread have ended;
\* the GPIO callback thread ends with it.
ProcessAlive == ~(pc["main"] = "exit" /\ timers = 0 /\ unlocking = 0)

Runs(t, p) == pc[t] = p /\ ProcessAlive

\* The handler returns normally with cycle record c.
Return(t, c) ==
    /\ pc' = [pc EXCEPT ![t] = ReturnPc(t)]
    /\ cyc' = [cyc EXCEPT ![t] = [c EXCEPT !.out = "returned"]]

\* An Exception is raised at the current statement, the cycle record being c.
\* picam.py catches it when the statement is inside the try block; anywhere
\* else, and everywhere in qr204.py, it leaves the handler.
RaiseError(t, c) ==
    IF prog = "picam" /\ InTry(pc[t])
    THEN /\ pc' = [pc EXCEPT ![t] = "except"]
         /\ cyc' = [cyc EXCEPT ![t] = c]
    ELSE /\ pc' = [pc EXCEPT ![t] = PropagatePc(t)]
         /\ cyc' = [cyc EXCEPT ![t] = [c EXCEPT !.out = "raised"]]

(* ------------------------------- Init ---------------------------------- *)

\* State after setup: pins configured, LED high, callback registered, the main
\* thread about to make the startup invocation.
InitWith(widths, frames) ==
    /\ prog \in {"picam", "qr204"}
    /\ IMAGE_WIDTH \in widths
    /\ camera \in frames
    /\ button_locked = FALSE
    /\ led = "HIGH"
    /\ cleaned = FALSE
    /\ interrupted = FALSE
    /\ pc = [t \in Threads |-> IF t = "main" THEN "start" ELSE "idle"]
    /\ cyc = [t \in Threads |-> FreshCycle]
    /\ timers = 0
    /\ unlocking = 0
    /\ presses = 0

Init == InitWith({DefaultImageWidth}, {FullHd})

(* ------------------------------ triggers ------------------------------- *)

\* The GPIO layer delivers a falling edge: the callback starts on its thread.
button_press ==
    /\ Runs("gpio", "idle")
    /\ ~cleaned
    /\ presses < MaxPresses
    /\ presses' = presses + 1
    /\ pc' = [pc EXCEPT !["gpio"] = "check"]
    /\ cyc' = [cyc EXCEPT !["gpio"] = FreshCycle]
    /\ UNCHANGED <<prog, IMAGE_WIDTH, camera, button_locked, led, cleaned,
                   interrupted, timers, unlocking>>

\* on_button(None) / picture(2) on the main thread.
startup_invocation ==
    /\ Runs("main", "start")
    /\ pc' = [pc EXCEPT !["main"] = "check"]
    /\ UNCHANGED <<prog, IMAGE_WIDTH, camera, button_locked, led, cleaned,
                   interrupted, cyc, timers, unlocking, presses>>

(* --------------------------- trigger handler --------------------------- *)

\* Mutant of on_button_check: the check of the flag is missing.
on_button_check_unguarded(t) ==
    /\ Runs(t, "check")
    /\ pc' = [pc EXCEPT ![t] = "lock"]
    /\ UNCHANGED <<prog, IMAGE_WIDTH, camera, button_locked, led, cleaned,
                   interrupted, cyc, timers, unlocking, presses>>

\* if button_locked: return
on_button_check(t) ==
    /\ Runs(t, "check")
    /\ IF button_locked
       THEN /\ pc' = [pc EXCEPT ![t] = ReturnPc(t)]
            /\ cyc' = [cyc EXCEPT ![t].out = "ignored"]
       ELSE /\ pc' = [pc EXCEPT ![t] = "lock"]
            /\ UNCHANGED cyc
    /\ UNCHANGED <<prog, IMAGE_WIDTH, camera, button_locked, led, cleaned,
                   interrupted, timers, unlocking, presses>>

\* Mutant of on_button_lock: the unlock timer is started on entering BUSY.
on_button_lock_arm(t) ==
    /\ Runs(t, "lock")
    /\ button_locked' = TRUE
    /\ timers' = timers + 1
    /\ pc' = [pc EXCEPT ![t] = "blinkHigh"]
    /\ cyc' = [cyc EXCEPT ![t].out = "running", ![t].blinks = MaxBlinks,
                          ![t].armed = cyc[t].armed + 1]
    /\ UNCHANGED <<prog, IMAGE_WIDTH, camera, led, cleaned, interrupted,
                   unlocking, presses>>

\* button_locked = True
on_button_lock(t) ==
    /\ Runs(t, "lock")
    /\ button_locked' = TRUE
    /\ pc' = [pc EXCEPT ![t] = "blinkHigh"]
    /\ cyc' = [cyc EXCEPT ![t].out = "running", ![t].blinks = MaxBlinks]
    /\ UNCHANGED <<prog, IMAGE_WIDTH, camera, led, cleaned, interrupted,
                   timers, unlocking, presses>>

\* blink: GPIO.output(pin, HIGH); sleep.  After GPIO.cleanup() GPIO.output raises.
blink_high(t) ==
    /\ Runs(t, "blinkHigh")
    /\ IF cleaned
       THEN RaiseError(t, cyc[t]) /\ UNCHANGED led
       ELSE /\ led' = "HIGH"
            /\ pc' = [pc EXCEPT ![t] = "blinkLow"]
            /\ UNCHANGED cyc
    /\ UNCHANGED <<prog, IMAGE_WIDTH, camera, button_locked, cleaned,
                   interrupted, timers, unlocking, presses>>

\* blink: GPIO.output(pin, LOW); sleep; loop until the duration has elapsed.
blink_low(t) ==
    /\ Runs(t, "blinkLow")
    /\ IF cleaned
       THEN RaiseError(t, cyc[t]) /\ UNCHANGED led
       ELSE /\ led' = "LOW"
            /\ pc' = [pc EXCEPT ![t] =
                        IF cyc[t].blinks > 1 THEN "blinkHigh" ELSE "seqEnd"]
            /\ cyc' = [cyc EXCEPT ![t].blinks = cyc[t].blinks - 1]
    /\ UNCHANGED <<prog, IMAGE_WIDTH, camera, button_locked, cleaned,
                   interrupted, timers, unlocking, presses>>

\* sequence: GPIO.output(pin, HIGH); sleep(1)
sequence_end(t) ==
    /\ Runs(t, "seqEnd")
    /\ IF cleaned
       THEN RaiseError(t, cyc[t]) /\ UNCHANGED led
       ELSE /\ led' = "HIGH"
            /\ pc' = [pc EXCEPT ![t] = "capOpen"]
            /\ UNCHANGED cyc
    /\ UNCHANGED <<prog, IMAGE_WIDTH, camera, button_locked, cleaned,
                   interrupted, timers, unlocking, presses>>

\* cap = cv2.VideoCapture(index)
capture_open(t) ==
    /\ Runs(t, "capOpen")
    /\ pc' = [pc EXCEPT ![t] = "capRead"]
    /\ cyc' = [cyc EXCEPT ![t].session = TRUE, ![t].opens = cyc[t].opens + 1]
    /\ UNCHANGED <<prog, IMAGE_WIDTH, camera, button_locked, led, cleaned,
                   interrupted, timers, unlocking, presses>>

\* ret, frame = cap.read(): a frame, no frame (ret = False), or the read raises.
capture_read(t) ==
    /\ Runs(t, "capRead")
    /\ LET c == [cyc[t] EXCEPT !.reads = cyc[t].reads + 1]
           next == IF prog = "picam" THEN "capRelease" ELSE "capStore"
       IN  \/ /\ pc' = [pc EXCEPT ![t] = next]
              /\ cyc' = [cyc EXCEPT ![t] = [c EXCEPT !.got = camera]]
           \/ /\ pc' = [pc EXCEPT ![t] = next]
              /\ cyc' = [cyc EXCEPT ![t] = [c EXCEPT !.noFrame = TRUE]]
           \/ RaiseError(t, c)
    /\ UNCHANGED <<prog, IMAGE_WIDTH, camera, button_locked, led, cleaned,
                   interrupted, timers, unlocking, presses>>

\* picam.py: cap.release(), straight after the read.
capture_release(t) ==
    /\ prog = "picam"
    /\ Runs(t, "capRelease")
    /\ pc' = [pc EXCEPT ![t] = "capStore"]
    /\ cyc' = [cyc EXCEPT ![t].session = FALSE]
    /\ UNCHANGED <<prog, IMAGE_WIDTH, camera, button_locked, led, cleaned,
                   interrupted, timers, unlocking, presses>>

\* picam.py: if not ret: raise RuntimeError(...); cv2.imwrite(path, frame)
capture_store(t) ==
    /\ prog = "picam"
    /\ Runs(t, "capStore")
    /\ IF cyc[t].noFrame
       THEN RaiseError(t, cyc[t])
       ELSE /\ pc' = [pc EXCEPT ![t] = "convert"]
            /\ cyc' = [cyc EXCEPT ![t].frame = cyc[t].got]
    /\ UNCHANGED <<prog, IMAGE_WIDTH, camera, button_locked, led, cleaned,
                   interrupted, timers, unlocking, presses>>

\* qr204.py: if ret: cv2.imwrite(...) else: print("Failed to capture image")
say_cheeze_store(t) ==
    /\ prog = "qr204"
    /\ Runs(t, "capStore")
    /\ pc' = [pc EXCEPT ![t] = "capRelease"]
    /\ cyc' = [cyc EXCEPT ![t] =
                 IF cyc[t].noFrame
                 THEN [cyc[t] EXCEPT !.reported = TRUE]
                 ELSE [cyc[t] EXCEPT !.frame = cyc[t].got]]
    /\ UNCHANGED <<prog, IMAGE_WIDTH, camera, button_locked, led, cleaned,
                   interrupted, timers, unlocking, presses>>

\* qr204.py: cap.release(), the last statement of say_cheeze.
say_cheeze_release(t) ==
    /\ prog = "qr204"
    /\ Runs(t, "capRelease")
    /\ pc' = [pc EXCEPT ![t] = "convert"]
    /\ cyc' = [cyc EXCEPT ![t].session = FALSE]
    /\ UNCHANGED <<prog, IMAGE_WIDTH, camera, button_locked, led, cleaned,
                   interrupted, timers, unlocking, presses>>

\* img = processor.convert(output_path) / convert_image(image_name): Image.open
\* raises when the file is missing or unreadable, resize when a side is below 1.
convert_step(t) ==
    /\ Runs(t, "convert")
    /\ LET out == convert(cyc[t].frame, Width)
       IN  \/ /\ cyc[t].frame # NoImage
              /\ out # NoImage
              /\ pc' = [pc EXCEPT ![t] = "ledLow"]
              /\ cyc' = [cyc EXCEPT ![t].img = out]
           \/ RaiseError(t, cyc[t])
    /\ UNCHANGED <<prog, IMAGE_WIDTH, camera, button_locked, led, cleaned,
                   interrupted, timers, unlocking, presses>>

\* GPIO.output(LED_PIN, GPIO.LOW)
led_low(t) ==
    /\ Runs(t, "ledLow")
    /\ IF cleaned
       THEN RaiseError(t, cyc[t]) /\ UNCHANGED led
       ELSE /\ led' = "LOW"
            /\ pc' = [pc EXCEPT ![t] = "print"]
            /\ UNCHANGED cyc
    /\ UNCHANGED <<prog, IMAGE_WIDTH, camera, button_locked, cleaned,
                   interrupted, timers, unlocking, presses>>

\* printer.print_image(img) / print_image_with_darkness(...): prints, or raises
\* (the device cannot be opened or written).
print_image(t) ==
    /\ Runs(t, "print")
    /\ LET c == [cyc[t] EXCEPT !.printed = TRUE]
       IN  \/ /\ pc' = [pc EXCEPT ![t] = IF prog = "picam" THEN "finally" ELSE "arm"]
              /\ cyc' = [cyc EXCEPT ![t] = c]
           \/ RaiseError(t, c)
    /\ UNCHANGED <<prog, IMAGE_WIDTH, camera, button_locked, led, cleaned,
                   interrupted, timers, unlocking, presses>>

\* Mutant of on_button_except: the timer is started at the end of the try
\* block instead of in a finally clause, so after an error the handler returns
\* without it.
on_button_except_no_finally(t) ==
    /\ prog = "picam"
    /\ Runs(t, "except")
    /\ Return(t, [cyc[t] EXCEPT !.reported = TRUE])
    /\ UNCHANGED <<prog, IMAGE_WIDTH, camera, button_locked, led, cleaned,
                   interrupted, timers, unlocking, presses>>

\* picam.py: except Exception as e: print(f"Error: {e}")
on_button_except(t) ==
    /\ prog = "picam"
    /\ Runs(t, "except")
    /\ pc' = [pc EXCEPT ![t] = "finally"]
    /\ cyc' = [cyc EXCEPT ![t].reported = TRUE]
    /\ UNCHANGED <<prog, IMAGE_WIDTH, camera, button_locked, led, cleaned,
                   interrupted, timers, unlocking, presses>>

\* picam.py: finally: threading.Timer(3, unlock_button).start(); then the
\* handler returns, or a pending KeyboardInterrupt goes on to the caller.
on_button_finally(t) ==
    /\ prog = "picam"
    /\ Runs(t, "finally")
    /\ timers' = timers + 1
    /\ LET c == [cyc[t] EXCEPT !.armed = cyc[t].armed + 1]
       IN  IF c.exc = "kbi"
           THEN /\ pc' = [pc EXCEPT ![t] = PropagatePc(t)]
                /\ cyc' = [cyc EXCEPT ![t] = [c EXCEPT !.out = "raised"]]
           ELSE Return(t, c)
    /\ UNCHANGED <<prog, IMAGE_WIDTH, camera, button_locked, led, cleaned,
                   interrupted, unlocking, presses>>

\* qr204.py: threading.Timer(3, unlock_button).start(), the last statement.
picture_arm(t) ==
    /\ prog = "qr204"
    /\ Runs(t, "arm")
    /\ timers' = timers + 1
    /\ Return(t, [cyc[t] EXCEPT !.armed = cyc[t].armed + 1])
    /\ UNCHANGED <<prog, IMAGE_WIDTH, camera, button_locked, led, cleaned,
                   interrupted, unlocking, presses>>

(* ----------------------------- unlock timer ---------------------------- *)

\* unlock_button on a timer thread: button_locked = False
unlock_button_flag ==
    /\ timers > 0
    /\ timers' = timers - 1
    /\ unlocking' = unlocking + 1
    /\ button_locked' = FALSE
    /\ UNCHANGED <<prog, IMAGE_WIDTH, camera, led, cleaned, interrupted, pc,
                   cyc, presses>>

\* Mutant of unlock_button_led: the callback does not drive the LED pin.
unlock_button_led_skip ==
    /\ unlocking > 0
    /\ unlocking' = unlocking - 1
    /\ UNCHANGED <<prog, IMAGE_WIDTH, camera, button_locked, led, cleaned,
                   interrupted, pc, cyc, timers, presses>>

\* unlock_button: GPIO.output(LED_PIN, GPIO.HIGH); it raises after cleanup and
\* the timer thread ends.
unlock_button_led ==
    /\ unlocking > 0
    /\ unlocking' = unlocking - 1
    /\ led' = IF cleaned THEN led ELSE "HIGH"
    /\ UNCHANGED <<prog, IMAGE_WIDTH, camera, button_locked, cleaned,
                   interrupted, pc, cyc, timers, presses>>

(* ------------------------ interrupt and teardown ----------------------- *)

\* Ctrl-C: KeyboardInterrupt is raised in the main thread at its current
\* statement.  In the wait loop the try block catches it; in on_button's try
\* block "except Exception" does not catch it, the finally clause runs and
\* it goes on; anywhere else it leaves main() at once.
keyboard_interrupt ==
    /\ ~interrupted
    /\ pc["main"] \notin {"cleanup", "exit"}
    /\ interrupted' = TRUE
    /\ LET p == pc["main"]
       IN  IF p = "wait"
           THEN /\ pc' = [pc EXCEPT !["main"] = "cleanup"]
                /\ UNCHANGED cyc
           ELSE IF prog = "picam" /\ (InTry(p) \/ p = "except")
           THEN /\ pc' = [pc EXCEPT !["main"] = "finally"]
                /\ cyc' = [cyc EXCEPT !["main"].exc = "kbi"]
           ELSE /\ pc' = [pc EXCEPT !["main"] = "exit"]
                /\ cyc' = [cyc EXCEPT !["main"].out =
                             IF p = "start" THEN "none" ELSE "raised"]
    /\ UNCHANGED <<prog, IMAGE_WIDTH, camera, button_locked, led, cleaned,
                   timers, unlocking, presses>>

\* finally: GPIO.cleanup(): the pins go back to inputs, the edge detection is
\* removed, and main() returns.
gpio_cleanup ==
    /\ pc["main"] = "cleanup"
    /\ cleaned' = TRUE
    /\ led' = "INPUT"
    /\ pc' = [pc EXCEPT !["main"] = "exit"]
    /\ UNCHANGED <<prog, IMAGE_WIDTH, camera, button_locked, interrupted, cyc,
                   timers, unlocking, presses>>

(* ---------------------------- specification ---------------------------- *)

\* One statement of the handler on thread t.
Step(t) ==
    \/ on_button_check(t)
    \/ on_button_lock(t)
    \/ blink_high(t)
    \/ blink_low(t)
    \/ sequence_end(t)
    \/ capture_open(t)
    \/ capture_read(t)
    \/ capture_release(t)
    \/ capture_store(t)
    \/ say_cheeze_store(t)
    \/ say_cheeze_release(t)
    \/ convert_step(t)
    \/ led_low(t)
    \/ print_image(t)
    \/ on_button_except(t)
    \/ on_button_finally(t)
    \/ picture_arm(t)

Handler == \E t \in Threads : Step(t)

Next ==
    \/ button_press
    \/ startup_invocation
    \/ Handler
    \/ unlock_button_flag
    \/ unlock_button_led
    \/ keyboard_interrupt
    \/ gpio_cleanup

Spec == Init /\ [][Next]_vars

\* The startup invocation alone, for every frame size and configured width.
ConvInit == InitWith(Widths, FrameSizes)

ConvNext ==
    \/ startup_invocation
    \/ Step("main")
    \/ unlock_button_flag
    \/ unlock_button_led

ConvSpec == ConvInit /\ [][ConvNext]_vars

\* Every thread that can take a step eventually does (calls return, sleeps
\* end), and a started timer fires.  Button presses and Ctrl-C are up to the
\* user: no fairness.
Fairness ==
    /\ \A t \in Threads : WF_vars(Step(t))
    /\ WF_vars(startup_invocation)
    /\ WF_vars(unlock_button_flag)
    /\ WF_vars(unlock_button_led)
    /\ WF_vars(gpio_cleanup)

LiveSpec == Spec /\ Fairness

(* ------------------------------- claims -------------------------------- *)

TypeOK ==
    /\ prog \in {"picam", "qr204"}
    /\ button_locked \in BOOLEAN
    /\ led \in {"HIGH", "LOW", "INPUT"}
    /\ cleaned \in BOOLEAN
    /\ interrupted \in BOOLEAN
    /\ \A t \in Threads : pc[t] \in HandlerPcs \cup {"start", "idle", "wait", "cleanup", "exit"}
    /\ timers \in Nat
    /\ unlocking \in Nat
    /\ presses \in 0..MaxPresses

\* Thread t is executing the handler.
InHandler(t) == pc[t] \in HandlerPcs

\* The handler invocation of thread t has ended.
Ended(t) == ~InHandler(t) /\ cyc[t].out \in {"ignored", "returned", "raised"}

\* C1: at most one trigger cycle runs at a time: never are both threads past
\* the lock check and in the body of the handler.
C1_OneCycleAtATime ==
    ~(pc["main"] \in BodyPcs /\ pc["gpio"] \in BodyPcs)

\* C2: a handler step that finds the flag set returns at once: nothing of the
\* cycle has run (no blink, no session, no file, no print, no timer), and the
\* flag, the LED, the timers and the other thread are as before; and a handler
\* invocation starts only from a delivered press or the one startup call, so an
\* ignored press is never replayed.
C2_BusyTriggerIsNoOp ==
    [][\A t \in Threads :
          /\ (pc[t] = "check" /\ button_locked /\ pc'[t] # "check"
                /\ interrupted' = interrupted)
             => /\ pc'[t] = ReturnPc(t)
                /\ cyc'[t] = [FreshCycle EXCEPT !.out = "ignored"]
                /\ \A u \in Threads \ {t} : pc'[u] = pc[u] /\ cyc'[u] = cyc[u]
                /\ UNCHANGED <<button_locked, led, timers, unlocking, presses>>
          /\ (pc[t] # "check" /\ pc'[t] = "check")
             => \/ t = "gpio" /\ pc[t] = "idle" /\ presses' = presses + 1
                \/ t = "main" /\ pc[t] = "start"]_vars

\* C2 witness: the main thread's cycle is running and a press has been ignored.
C2_Witness ==
    /\ pc["main"] \in BodyPcs
    /\ cyc["gpio"].out = "ignored"
    /\ pc["gpio"] = "idle"
    /\ button_locked

\* C3: in picam.py, as long as the process is not interrupted, no exception
\* leaves on_button, a handler that has returned has started exactly one
\* timer, and a cycle that has entered BUSY leads to the flag being false again.
C3_CycleReturnsToIdle ==
    /\ [](prog = "picam" /\ ~interrupted
            => \A t \in Threads :
                  /\ cyc[t].out # "raised"
                  /\ cyc[t].out = "returned" => cyc[t].armed = 1)
    /\ \A t \in Threads :
          (prog = "picam" /\ pc[t] \in BodyPcs) ~> (~button_locked \/ interrupted)

\* C3 witness: a cycle of picam.py failed, reported it, returned, started one
\* timer, and the timer has fired: the flag is false again.
C3_Witness ==
    \E t \in Threads :
        /\ prog = "picam"
        /\ ~interrupted
        /\ cyc[t].out = "returned"
        /\ cyc[t].reported
        /\ cyc[t].armed = 1
        /\ ~button_locked
        /\ timers = 0
        /\ unlocking = 0

\* C4: when the read returned no frame, the cycle (not interrupted) ends with
\* the failure reported, the printer not called, and one unlock timer started.
C4_NoFrameStillUnlocks ==
    \A t \in Threads :
        (cyc[t].noFrame /\ Ended(t) /\ ~interrupted)
            => cyc[t].reported /\ ~cyc[t].printed /\ cyc[t].armed = 1

\* C5: once the main thread has ended after a KeyboardInterrupt, GPIO.cleanup()
\* has run.
C5_CleanupOnInterrupt ==
    (interrupted /\ pc["main"] = "exit") => cleaned

\* C6: a capture call opens one session and reads one frame, and once it has
\* returned or raised no session is open.
C6_SessionReleased ==
    \A t \in Threads :
        /\ cyc[t].opens <= 1
        /\ cyc[t].reads <= 1
        /\ pc[t] \notin {"capOpen", "capRead", "capRelease", "capStore"}
              => ~cyc[t].session

\* round(n / d), halves to even.
Round(n, d) ==
    LET q == n \div d
        r == n % d
    IN  IF 2 * r < d THEN q
        ELSE IF 2 * r > d THEN q + 1
        ELSE IF q % 2 = 0 THEN q ELSE q + 1

\* C7 as stated: the processed image is IMAGE_WIDTH wide and
\* round(IMAGE_WIDTH * originalHeight / originalWidth) high.
C7_HeightFromOriginalRatio ==
    \A t \in Threads :
        cyc[t].img # NoImage
            => cyc[t].img = <<Width, Round(Width * cyc[t].frame[2], cyc[t].frame[1])>>

\* C7 amended: the processed image is IMAGE_WIDTH wide and
\* floor(IMAGE_WIDTH * originalWidth / originalHeight) high (the ratio of the
\* rotated frame, truncated); when that height is 0 convert raises and there
\* is no image; a 1920x1080 frame at width 384 gives 384x682.
C7_HeightFromRotatedRatio ==
    \A t \in Threads :
        LET f == cyc[t].frame
            h == (Width * f[1]) \div f[2]
        IN  /\ cyc[t].img # NoImage
                => f # NoImage /\ h >= 1 /\ cyc[t].img = <<Width, h>>
            /\ (f # NoImage /\ h = 0) => cyc[t].img = NoImage
            /\ (f = FullHd /\ Width = 384 /\ cyc[t].img # NoImage)
                => cyc[t].img = <<384, 682>>

\* C7 witness: a 1920x1080 frame has been converted at width 384.
C7_Witness ==
    \E t \in Threads :
        /\ cyc[t].frame = FullHd
        /\ Width = 384
        /\ cyc[t].img = <<384, 682>>

\* C8 as stated: the unlock timer is started on entering BUSY, so it has been
\* started whenever the cycle is in capture, convert or print.
C8_ArmedOnEnteringBusy ==
    \A t \in Threads :
        pc[t] \in {"capOpen", "capRead", "capRelease", "capStore", "convert",
                   "ledLow", "print"}
            => cyc[t].armed >= 1

\* C8 amended: a cycle starts its unlock timer only after its capture, convert
\* and print steps have returned or raised: while the handler is anywhere in
\* its body it has started no timer, so its timer cannot fire during its work.
C8_ArmedAfterWork ==
    \A t \in Threads :
        /\ pc[t] \in BodyPcs => cyc[t].armed = 0
        /\ cyc[t].armed >= 1 => ~InHandler(t) /\ cyc[t].armed = 1

\* C8 witness: a cycle has printed and returned, and its timer is waiting.
C8_Witness ==
    \E t \in Threads :
        /\ cyc[t].out = "returned"
        /\ cyc[t].printed
        /\ cyc[t].armed = 1
        /\ timers = 1
        /\ button_locked

\* C9: at most one unlock timer is outstanding, and every cycle that has run
\* (not interrupted) has started exactly one.
C9_OneTimerPerCycle ==
    /\ timers <= 1
    /\ \A t \in Threads :
          (cyc[t].out \in {"returned", "raised"} /\ ~interrupted)
              => cyc[t].armed = 1

\* The controller accepts a new press: the flag is false, no thread is in the
\* handler, the process is running and GPIO has not been cleaned up.
Accepting ==
    /\ ~button_locked
    /\ ~cleaned
    /\ pc["main"] \in {"start", "wait"}
    /\ pc["gpio"] = "idle"

\* C10 as stated: in picam.py, whenever the controller accepts a new press the
\* LED is high.
C10_IdleLedHigh ==
    (prog = "picam" /\ Accepting) => led = "HIGH"

\* C10 amended: in picam.py, whenever the controller accepts a new press and
\* no unlock timer is waiting or in the middle of its callback, the LED is high.
C10_IdleNoTimerLedHigh ==
    (prog = "picam" /\ Accepting /\ timers = 0 /\ unlocking = 0) => led = "HIGH"

\* C10 witness: a cycle drove the LED low and printed, its timer has fired and
\* finished, and the controller accepts a new press.
C10_Witness ==
    /\ prog = "picam"
    /\ Accepting
    /\ timers = 0
    /\ unlocking = 0
    /\ \E t \in Threads : cyc[t].printed /\ cyc[t].armed = 1

====
